---- MODULE Spec2Model ----
(***************************************************************************)
(* State machine of the React component App (frontend/src/App.jsx): the    *)
(* chat session list, the composer input, the history side panel, and the  *)
(* /chat and /history requests in flight.                                  *)
(*                                                                         *)
(* Strings are sequences of one-character strings, so that String.trim is  *)
(* computed and not assumed.  A JSON value received from the backend is a  *)
(* record [t, str, list]: t is its JavaScript type, str its characters     *)
(* when it is a string, list its elements when it is an array.             *)
(* The timestamp field of a message (a formatted wall-clock time) is       *)
(* display-only and is not part of the state modelled here.                *)
(*                                                                         *)
(* A render that throws makes React unmount the tree: the state of the     *)
(* component is discarded and the updates of promise chains still in       *)
(* flight are dropped, so the state machine stops there (mounted = FALSE). *)
(***************************************************************************)
EXTENDS Integers, Sequences, FiniteSets, TLC

VARIABLES
    messages,        \* useState([]): the session list, records [sender, text]
    input,           \* useState(""): the composer's text
    showHistory,     \* useState(false)
    history,         \* useState([]): a JavaScript value, see SetHistoryArg
    loadingHistory,  \* useState(false)
    mounted,         \* the component is rendered; FALSE once a render has thrown
    chatCalls,       \* the invocations of sendMessage that reached fetch(/chat)
    historyCalls,    \* the fetch(/history) promise chains started by the effect
    msgCall,         \* history variable: msgCall[i] is the call that appended messages[i]
    openTransitions, \* history variable: closed-to-open transitions of the panel
    event            \* history variable: the step taken last

vars == <<messages, input, showHistory, history, loadingHistory, mounted,
          chatCalls, historyCalls, msgCall, openTransitions, event>>

chatVars == <<messages, input, chatCalls, msgCall>>
historyVars == <<showHistory, history, loadingHistory, historyCalls, openTransitions>>

\* Bound of the model: the requests (/chat and /history together) of one visit.
MaxRequests == 3
Requests == Len(chatCalls) + Len(historyCalls)

(***************************************************************************)
(* JavaScript values and strings                                           *)
(***************************************************************************)
Undefined == [t |-> "undefined", str |-> <<>>, list |-> <<>>]
Null == [t |-> "null", str |-> <<>>, list |-> <<>>]
Str(s) == [t |-> "str", str |-> s, list |-> <<>>]
List(l) == [t |-> "list", str |-> <<>>, list |-> l]

\* ToBoolean: what `v || w` tests.  An array is truthy even when empty.
Truthy(v) ==
    \/ v.t = "list"
    \/ v.t = "str" /\ v.str # <<>>

\* v || w
OrElse(v, w) == IF Truthy(v) THEN v ELSE w

\* v.length: a number for a string or an array, undefined otherwise (-1 here).
Length(v) ==
    IF v.t = "str" THEN Len(v.str)
    ELSE IF v.t = "list" THEN Len(v.list)
    ELSE -1

WhiteSpace == {" ", "\t", "\n"}

RECURSIVE TrimStart(_)
TrimStart(s) ==
    IF s = <<>> THEN s
    ELSE IF Head(s) \in WhiteSpace THEN TrimStart(Tail(s))
    ELSE s

RECURSIVE TrimEnd(_)
TrimEnd(s) ==
    IF s = <<>> THEN s
    ELSE IF s[Len(s)] \in WhiteSpace THEN TrimEnd(SubSeq(s, 1, Len(s) - 1))
    ELSE s

\* String.prototype.trim
Trim(s) == TrimEnd(TrimStart(s))

NoReplyText == <<"(", "N", "o", " ", "r", "e", "p", "l", "y", ")">>
ErrorText ==
    <<"E", "r", "r", "o", "r", ":", " ", "C", "o", "u", "l", "d", " ", "n", "o", "t",
      " ", "r", "e", "a", "c", "h", " ", "b", "a", "c", "k", "e", "n", "d", ".">>

(***************************************************************************)
(* Inputs: what the user types and what the backend answers                *)
(***************************************************************************)
InputValues ==
    { <<>>, <<" ", "\t">>, <<" ", "h", "i", " ">> }

ReplyValues == { Undefined, Null, Str(<<>>), Str(<<"X">>) }

Entry1 == [sender |-> "user", text |-> "hi", timestamp |-> "10:00"]
Entry2 == [sender |-> "bot", text |-> "hello", timestamp |-> "10:01"]

HistoryValues ==
    { Undefined, Null, Str(<<"o", "o", "p", "s">>),
      List(<<>>), List(<<Entry1>>), List(<<Entry1, Entry2>>) }

\* A settled fetch followed by res.json(): the fetch rejects (net = "reject"),
\* or it resolves with a status (ok) and a body that is not JSON
\* ("unparsable"), the JSON null, or a JSON object whose field of interest
\* (reply for /chat, history for /history) is `field`.
NoResponse == [net |-> "none", ok |-> FALSE, body |-> "none", field |-> Undefined]
Rejected == [net |-> "reject", ok |-> FALSE, body |-> "none", field |-> Undefined]

Responses(fields) ==
    {Rejected}
      \cup [net : {"response"}, ok : BOOLEAN, body : {"unparsable", "null"},
            field : {Undefined}]
      \cup [net : {"response"}, ok : BOOLEAN, body : {"object"}, field : fields]

ChatResponses == Responses(ReplyValues)
HistoryResponses == Responses(HistoryValues)

\* The try block / the promise chain throws: fetch rejects, res.json() rejects,
\* or the property access on a null body raises a TypeError.
Throws(resp) ==
    \/ resp.net = "reject"
    \/ resp.body = "unparsable"
    \/ resp.body = "null"

Event(kind, call, resp) == [kind |-> kind, call |-> call, resp |-> resp]

(***************************************************************************)
(* Initial state: the useState initial values                              *)
(***************************************************************************)
Init ==
    /\ messages = <<>>
    /\ input = <<>>
    /\ showHistory = FALSE
    /\ history = List(<<>>)
    /\ loadingHistory = FALSE
    /\ mounted = TRUE
    /\ chatCalls = <<>>
    /\ historyCalls = <<>>
    /\ msgCall = <<>>
    /\ openTransitions = 0
    /\ event = Event("init", 0, NoResponse)

(***************************************************************************)
(* Composer and sendMessage                                                *)
(***************************************************************************)
\* onChange={(e) => setInput(e.target.value)}
Type(v) ==
    /\ mounted
    /\ input' = v
    /\ event' = Event("type", 0, NoResponse)
    /\ UNCHANGED <<messages, chatCalls, msgCall, historyVars, mounted>>

\* Variant of Rejects: the guard tests the input without trimming it.
RejectsUntrimmed(text) == text = <<>>

\* if (!input.trim()) return;
Rejects(text) == Trim(text) = <<>>

\* Variant of UserMsg: the message carries the trimmed text.
UserMsgTrimmed(text) == [sender |-> "user", text |-> Trim(text)]

\* const userMsg = { sender: "user", text: input, ... }
UserMsg(text) == [sender |-> "user", text |-> text]

\* Variant of BotText: the reply is read from a field the response does not
\* carry, so the placeholder is always shown.
BotTextWrongField(resp) ==
    IF Throws(resp) THEN ErrorText
    ELSE NoReplyText

\* Variant of BotText: data.reply is used without the `|| "(No reply)"` default.
BotTextNoDefault(resp) ==
    IF Throws(resp) THEN ErrorText
    ELSE resp.field.str

\* data.reply || "(No reply)" on success, the fixed text in the catch block
BotText(resp) ==
    IF Throws(resp) THEN ErrorText
    ELSE OrElse(resp.field, Str(NoReplyText)).str

BotMsg(resp) == [sender |-> "bot", text |-> BotText(resp)]

\* Variant of Escapes: res.json() is awaited outside the try block.
EscapesJsonError(resp) == resp.net = "response" /\ resp.body = "unparsable"

\* try { ... } catch { ... }: the catch clause takes every exception of the try
\* block and cannot throw itself, so none leaves sendMessage.
Escapes(resp) == FALSE

\* Variant of Submit: submitting also closes the history panel.
SubmitClosesPanel ==
    /\ mounted
    /\ event' = Event("submit", 0, NoResponse)
    /\ IF Rejects(input)
       THEN UNCHANGED <<messages, input, chatCalls, msgCall>>
       ELSE /\ Requests < MaxRequests
            /\ messages' = Append(messages, UserMsg(input))
            /\ msgCall' = Append(msgCall, Len(chatCalls) + 1)
            /\ chatCalls' = Append(chatCalls, [message |-> input, pc |-> "pending"])
            /\ input' = <<>>
    /\ showHistory' = FALSE
    /\ UNCHANGED <<history, loadingHistory, historyCalls, openTransitions, mounted>>

\* Variant of Submit: setInput("") is missing.
SubmitKeepsInput ==
    /\ mounted
    /\ event' = Event("submit", 0, NoResponse)
    /\ IF Rejects(input)
       THEN UNCHANGED <<messages, input, chatCalls, msgCall>>
       ELSE /\ Requests < MaxRequests
            /\ messages' = Append(messages, UserMsg(input))
            /\ msgCall' = Append(msgCall, Len(chatCalls) + 1)
            /\ chatCalls' = Append(chatCalls, [message |-> input, pc |-> "pending"])
            /\ UNCHANGED input
    /\ UNCHANGED <<historyVars, mounted>>

\* Variant of Submit: a submit is refused while a /chat call is in flight.
SubmitSerialized ==
    /\ mounted
    /\ event' = Event("submit", 0, NoResponse)
    /\ IF Rejects(input)
       THEN UNCHANGED <<messages, input, chatCalls, msgCall>>
       ELSE /\ Requests < MaxRequests
            /\ \A c \in 1..Len(chatCalls) : chatCalls[c].pc # "pending"
            /\ messages' = Append(messages, UserMsg(input))
            /\ msgCall' = Append(msgCall, Len(chatCalls) + 1)
            /\ chatCalls' = Append(chatCalls, [message |-> input, pc |-> "pending"])
            /\ input' = <<>>
    /\ UNCHANGED <<historyVars, mounted>>

\* sendMessage up to its first await: the guard, the user message, the cleared
\* input and the request.
Submit ==
    /\ mounted
    /\ event' = Event("submit", 0, NoResponse)
    /\ IF Rejects(input)
       THEN UNCHANGED <<messages, input, chatCalls, msgCall>>
       ELSE /\ Requests < MaxRequests
            /\ messages' = Append(messages, UserMsg(input))
            /\ msgCall' = Append(msgCall, Len(chatCalls) + 1)
            /\ chatCalls' = Append(chatCalls, [message |-> input, pc |-> "pending"])
            /\ input' = <<>>
    /\ UNCHANGED <<historyVars, mounted>>

\* Variant of ChatSettle: the catch block is empty, so a failed call ends
\* without a bot message.
ChatSettleRetries(c, resp) ==
    /\ mounted
    /\ chatCalls[c].pc = "pending"
    /\ event' = Event("chat", c, resp)
    /\ IF Throws(resp)
       THEN /\ chatCalls' = [chatCalls EXCEPT ![c].pc = "fulfilled"]
            /\ UNCHANGED <<messages, msgCall>>
       ELSE /\ chatCalls' = [chatCalls EXCEPT ![c].pc = "fulfilled"]
            /\ messages' = Append(messages, [sender |-> "bot", text |-> OrElse(resp.field, Str(NoReplyText)).str])
            /\ msgCall' = Append(msgCall, c)
    /\ UNCHANGED <<input, historyVars, mounted>>

\* Variant of ChatSettle: the bot message is put in front of the list.
ChatSettlePrepends(c, resp) ==
    /\ mounted
    /\ chatCalls[c].pc = "pending"
    /\ event' = Event("chat", c, resp)
    /\ chatCalls' = [chatCalls EXCEPT ![c].pc = "fulfilled"]
    /\ messages' = <<BotMsg(resp)>> \o messages
    /\ msgCall' = <<c>> \o msgCall
    /\ UNCHANGED <<input, historyVars, mounted>>

\* sendMessage from the settling of fetch(/chat) to its end: the promise it
\* returned is fulfilled, or rejected if an exception escapes.
ChatSettle(c, resp) ==
    /\ mounted
    /\ chatCalls[c].pc = "pending"
    /\ event' = Event("chat", c, resp)
    /\ IF Escapes(resp)
       THEN /\ chatCalls' = [chatCalls EXCEPT ![c].pc = "rejected"]
            /\ UNCHANGED <<messages, msgCall>>
       ELSE /\ chatCalls' = [chatCalls EXCEPT ![c].pc = "fulfilled"]
            /\ messages' = Append(messages, BotMsg(resp))
            /\ msgCall' = Append(msgCall, c)
    /\ UNCHANGED <<input, historyVars, mounted>>

(***************************************************************************)
(* History panel                                                           *)
(***************************************************************************)
\* The panel's body: "Loading...", "No chat history yet." or history.map(...).
\* history.map is not a function unless history is an array.
RenderThrows(loading, hist) ==
    /\ ~loading
    /\ Length(hist) # 0
    /\ hist.t # "list"

\* Variant of EffectFetches: the effect body lacks its if (showHistory) test.
EffectFetchesUnguarded(prevShow, nextShow) == prevShow # nextShow

\* useEffect(..., [showHistory]): the effect runs after a render that changed
\* showHistory, and its body fetches only if (showHistory).
EffectFetches(prevShow, nextShow) ==
    /\ prevShow # nextShow
    /\ nextShow

\* onClick={() => setShowHistory(v)} and the effect that follows the render
SetShowHistory(v) ==
    /\ mounted
    /\ showHistory' = v
    /\ event' = Event(IF v THEN "open" ELSE "close", 0, NoResponse)
    /\ openTransitions' = IF ~showHistory /\ v THEN openTransitions + 1 ELSE openTransitions
    /\ IF EffectFetches(showHistory, v)
       THEN /\ Requests < MaxRequests
            /\ loadingHistory' = TRUE
            /\ historyCalls' = Append(historyCalls, [pc |-> "pending"])
       ELSE UNCHANGED <<loadingHistory, historyCalls>>
    /\ UNCHANGED <<history, chatVars, mounted>>

\* setHistory(data.history || [])
SetHistoryArg(resp) == OrElse(resp.field, List(<<>>))

\* What the promise chain leaves in history: the .then handler's value, or the
\* previous value when the chain went to .catch.
HistoryAfter(hist, resp) ==
    IF Throws(resp) THEN hist ELSE SetHistoryArg(resp)

\* The promise chain of one fetch(/history), from its settling to its end,
\* and the render that follows.
HistorySettle(h, resp) ==
    /\ mounted
    /\ historyCalls[h].pc = "pending"
    /\ historyCalls' = [historyCalls EXCEPT ![h].pc = "done"]
    /\ event' = Event("history", h, resp)
    /\ history' = HistoryAfter(history, resp)
    /\ loadingHistory' = FALSE
    /\ mounted' = ~RenderThrows(FALSE, HistoryAfter(history, resp))
    /\ UNCHANGED <<showHistory, openTransitions, chatVars>>

(***************************************************************************)
(* Specification                                                           *)
(***************************************************************************)
Next ==
    \/ \E v \in InputValues : Type(v)
    \/ Submit
    \/ \E c \in 1..Len(chatCalls) : \E resp \in ChatResponses : ChatSettle(c, resp)
    \/ \E v \in BOOLEAN : SetShowHistory(v)
    \/ \E h \in 1..Len(historyCalls) : \E resp \in HistoryResponses : HistorySettle(h, resp)

Spec == Init /\ [][Next]_vars

TypeOK ==
    /\ input \in InputValues
    /\ showHistory \in BOOLEAN
    /\ loadingHistory \in BOOLEAN
    /\ mounted \in BOOLEAN
    /\ Len(msgCall) = Len(messages)
(***************************************************************************)
(* Properties                                                              *)
(***************************************************************************)
UserMessagesOf(c) ==
    {i \in 1..Len(messages) : msgCall[i] = c /\ messages[i].sender = "user"}

BotMessagesOf(c) ==
    {i \in 1..Len(messages) : msgCall[i] = c /\ messages[i].sender = "bot"}

\* The step is an onSubmit event / the settling of a /chat call / of a /history fetch.
SubmitStep == event'.kind = "submit"
ChatStep == event'.kind = "chat"
HistoryStep == event'.kind = "history"

C1_OneUserMessage ==
    \A c \in 1..Len(chatCalls) :
        /\ Cardinality(UserMessagesOf(c)) = 1
        /\ \A i \in UserMessagesOf(c) : messages[i].text = chatCalls[c].message

C1_AppendedOnSubmit ==
    (SubmitStep /\ Trim(input) # <<>>) =>
        /\ messages' = Append(messages, [sender |-> "user", text |-> input])
        /\ Len(chatCalls') = Len(chatCalls) + 1
        /\ chatCalls'[Len(chatCalls')] = [message |-> input, pc |-> "pending"]

\* C1: every submission whose input is non-empty after trimming appends exactly
\* one user message carrying the input text, in the step that issues its /chat
\* call; so in every state every call, pending ones included, has exactly one
\* user message in the session list, with the text of the call.
C1_UserMessageBeforeResolve == [][C1_AppendedOnSubmit]_vars /\ []C1_OneUserMessage

\* Two submissions are in flight and the list holds the user message of each.
C1_Witness ==
    /\ Len(chatCalls) = 2
    /\ \A c \in 1..2 : chatCalls[c].pc = "pending"
    /\ Len(messages) = 2
    /\ \A i \in 1..2 : messages[i] = [sender |-> "user", text |-> <<" ", "h", "i", " ">>]

C2_NoOp ==
    (SubmitStep /\ Trim(input) = <<>>) =>
        UNCHANGED <<messages, input, chatCalls, msgCall, historyVars, mounted>>

C2_NoBlankCall ==
    /\ \A c \in 1..Len(chatCalls) : Trim(chatCalls[c].message) # <<>>
    /\ \A i \in 1..Len(messages) : msgCall[i] \in 1..Len(chatCalls)
    /\ \A c \in 1..Len(chatCalls) : Cardinality(BotMessagesOf(c)) <= 1

\* C2: a submit with an empty or whitespace-only input changes nothing (the
\* session list, the calls issued, every other state variable); no /chat call
\* carries a blank message, and every message of the list belongs to a call,
\* at most one bot message per call.
C2_BlankSubmitIsNoOp == [][C2_NoOp]_vars /\ []C2_NoBlankCall

\* A whitespace-only input has just been submitted, after an earlier exchange.
C2_Witness ==
    /\ event.kind = "submit"
    /\ input = <<" ", "\t">>
    /\ Len(messages) = 2
    /\ Len(chatCalls) = 1
\* The /chat call of the step got an OK response whose JSON body is an object.
ChatOkObject ==
    /\ ChatStep
    /\ event'.resp.net = "response"
    /\ event'.resp.ok
    /\ event'.resp.body = "object"

\* The step appends exactly the bot message `text`, after the user message of
\* the call that settled.
BotAppended(text) ==
    /\ messages' = Append(messages, [sender |-> "bot", text |-> text])
    /\ \E i \in 1..Len(messages) :
          /\ msgCall[i] = event'.call
          /\ messages[i] = [sender |-> "user", text |-> chatCalls[event'.call].message]

\* C3 as stated: for every reply string X, a successful /chat response
\* {reply: X} appends a bot message whose text is exactly X, after the user
\* message of its submission.
C3_EveryReplyAppended ==
    [][(ChatOkObject /\ event'.resp.field.t = "str")
          => BotAppended(event'.resp.field.str)]_vars

\* C3, amended: for every non-empty reply string X, a successful /chat response
\* {reply: X} appends a bot message whose text is exactly X, after the user
\* message of its submission.
C3_NonEmptyReplyAppended ==
    [][(ChatOkObject /\ event'.resp.field.t = "str" /\ event'.resp.field.str # <<>>)
          => BotAppended(event'.resp.field.str)]_vars

\* The reply "X" to the first of two submissions has been appended after both
\* user messages.
C3_Witness ==
    /\ event.kind = "chat"
    /\ event.call = 1
    /\ event.resp = [net |-> "response", ok |-> TRUE, body |-> "object", field |-> Str(<<"X">>)]
    /\ Len(messages) = 3
    /\ messages[3] = [sender |-> "bot", text |-> <<"X">>]
    /\ messages[2].sender = "user"

\* C4: an OK /chat response whose JSON object has no reply field appends
\* exactly one bot message, with the text "(No reply)" and not the error text.
C4_PlaceholderWhenNoReply ==
    [][(ChatOkObject /\ event'.resp.field = Undefined)
          => /\ BotAppended(NoReplyText)
             /\ messages'[Len(messages')].text # ErrorText]_vars

\* A response without a reply field has been answered with the placeholder.
C4_Witness ==
    /\ event.kind = "chat"
    /\ event.resp = [net |-> "response", ok |-> TRUE, body |-> "object", field |-> Undefined]
    /\ messages # <<>>
    /\ messages[Len(messages)] = [sender |-> "bot", text |-> NoReplyText]

\* The /chat call of the step failed: fetch rejected or the body is not JSON.
ChatFailed ==
    /\ ChatStep
    /\ \/ event'.resp.net = "reject"
       \/ event'.resp.net = "response" /\ event'.resp.body = "unparsable"

\* C5: when fetch(/chat) rejects or the body cannot be read as JSON, exactly
\* one bot message with the fixed error text is appended, the user message of
\* the submission stays in the list, and sendMessage ends without an exception.
C5_ErrorMessageOnFailure ==
    [][ChatFailed
          => /\ BotAppended(ErrorText)
             /\ chatCalls'[event'.call].pc = "fulfilled"]_vars

\* Both failures have happened: a rejected fetch, then a body that is not JSON.
C5_Witness ==
    /\ event.kind = "chat"
    /\ event.resp.body = "unparsable"
    /\ Len(messages) = 4
    /\ messages[3].text = ErrorText
    /\ messages[4].text = ErrorText
    /\ \A c \in 1..2 : chatCalls[c].pc = "fulfilled"

\* C6 as stated: a non-OK response to /chat, whatever its body, appends the
\* fixed error message (never the reply of the body, never the placeholder).
C6_NonOkIsFailure ==
    [][(ChatStep /\ event'.resp.net = "response" /\ ~event'.resp.ok)
          => BotAppended(ErrorText)]_vars

C7_OneFetchPerOpen ==
    IF ~showHistory /\ showHistory'
    THEN historyCalls' = Append(historyCalls, [pc |-> "pending"])
    ELSE Len(historyCalls') = Len(historyCalls)

\* C7: the /history fetches issued are as many as the closed-to-open
\* transitions of the panel: a step that opens the closed panel issues exactly
\* one fetch, whatever history holds, and no other step issues any (typing,
\* submitting, closing, pressing the open button of an open panel, a response).
C7_FetchesEqualOpens ==
    [][C7_OneFetchPerOpen]_vars /\ [](Len(historyCalls) = openTransitions)

\* The panel was reopened while it held the non-empty result of the first
\* fetch, and a second fetch is in flight.
C7_Witness ==
    /\ Len(historyCalls) = 2
    /\ historyCalls[1].pc = "done"
    /\ historyCalls[2].pc = "pending"
    /\ history = List(<<Entry1>>)
    /\ showHistory
    /\ openTransitions = 2

\* C8 as stated: whenever a /history fetch fails (fetch rejects, or the body
\* is not a JSON object), the panel stops loading and its list is empty
\* afterwards, also after an earlier fetch that stored a non-empty history.
C8_FailureLeavesListEmpty ==
    [][(HistoryStep /\ Throws(event'.resp))
          => /\ ~loadingHistory'
             /\ history' = List(<<>>)]_vars

\* C9 as stated: after every /history response that was read, history is a
\* list: the history field of the response when that is a list, and the empty
\* list when the field is absent or is not a list.
C9_HistoryIsAlwaysList ==
    [][(HistoryStep /\ ~Throws(event'.resp))
          => history' = IF event'.resp.field.t = "list"
                        THEN event'.resp.field
                        ELSE List(<<>>)]_vars

\* C10 as stated: while the fetch of the most recent open transition has not
\* completed, loadingHistory is true.
C10_LoadingWhileFetching ==
    (/\ mounted
     /\ historyCalls # <<>>
     /\ historyCalls[Len(historyCalls)].pc = "pending")
        => loadingHistory
UserCount == Cardinality({i \in 1..Len(messages) : messages[i].sender = "user"})
BotCount == Cardinality({i \in 1..Len(messages) : messages[i].sender = "bot"})
ResolvedCalls == {c \in 1..Len(chatCalls) : chatCalls[c].pc # "pending"}

C11_Counts ==
    /\ Len(chatCalls) = UserCount
    /\ BotCount = Cardinality(ResolvedCalls)
    /\ \A c \in 1..Len(chatCalls) :
          Cardinality(BotMessagesOf(c)) = IF c \in ResolvedCalls THEN 1 ELSE 0

\* A step issues at most one /chat call, and only an accepted submit issues one.
C11_OneCallPerSubmit ==
    /\ Len(chatCalls') \in {Len(chatCalls), Len(chatCalls) + 1}
    /\ Len(chatCalls') = Len(chatCalls) + 1 => (SubmitStep /\ Trim(input) # <<>>)

C12_ChatLeavesPanel ==
    event'.kind \in {"submit", "chat"} =>
        UNCHANGED <<history, loadingHistory, showHistory, historyCalls>>

C12_PanelLeavesChat ==
    event'.kind \in {"open", "close", "history"} =>
        UNCHANGED <<messages, input, chatCalls>>

\* C12: a submit and the settling of a /chat call (reply or failure) leave
\* history, loadingHistory and showHistory unchanged; opening or closing the
\* panel and the settling of a /history fetch (result or failure) leave the
\* session list and the input unchanged.
C12_ListsAreIndependent == [][C12_ChatLeavesPanel /\ C12_PanelLeavesChat]_vars

\* A /history result has arrived beside a session list of two messages and a
\* typed input, and the two lists differ.
C12_Witness ==
    /\ event.kind = "history"
    /\ history = List(<<Entry1, Entry2>>)
    /\ Len(messages) = 2
    /\ input = <<" ", "h", "i", " ">>

C13_ClearedOnSubmit ==
    (SubmitStep /\ Trim(input) # <<>>) =>
        /\ input' = <<>>
        /\ chatCalls'[Len(chatCalls')] = [message |-> input, pc |-> "pending"]
        /\ messages'[Len(messages')].text = input

\* The last step was a submit and nothing was typed since the submit that
\* appended the newest message.
C13_JustSubmitted ==
    /\ event.kind = "submit"
    /\ messages # <<>>
    /\ messages[Len(messages)].sender = "user"
    /\ msgCall[Len(messages)] = Len(chatCalls)

C13_SecondSubmitRejected ==
    (C13_JustSubmitted /\ SubmitStep) =>
        UNCHANGED <<messages, input, chatCalls, msgCall>>

\* C13: an accepted submit clears the input in the same step, while its call is
\* still pending, and the request body and the user message carry the text the
\* input held before; a submit that follows with nothing typed in between is
\* rejected.
C13_InputClearedAtOnce ==
    [][C13_ClearedOnSubmit /\ C13_SecondSubmitRejected]_vars

\* " hi " has just been submitted: the input is empty, the call is pending and
\* the call and the message carry " hi ".
C13_Witness ==
    /\ C13_JustSubmitted
    /\ input = <<>>
    /\ chatCalls[Len(chatCalls)] = [message |-> <<" ", "h", "i", " ">>, pc |-> "pending"]
    /\ messages[Len(messages)].text = <<" ", "h", "i", " ">>
\* Submit issues a call: the submission is accepted.
SubmitAccepted == Submit /\ Len(chatCalls') = Len(chatCalls) + 1

C14_NotSerialized ==
    mounted =>
        /\ (Trim(input) # <<>> /\ Requests < MaxRequests) => ENABLED SubmitAccepted
        /\ \A c \in 1..Len(chatCalls) :
              chatCalls[c].pc = "pending" => ENABLED ChatSettle(c, Rejected)

C14_ArrivalOrder ==
    ChatStep =>
        /\ msgCall' = Append(msgCall, event'.call)
        /\ SubSeq(messages', 1, Len(messages)) = messages
        /\ Len(messages') = Len(messages) + 1

\* C14: sends are not serialized: a non-blank submit is accepted whether or not
\* /chat calls are in flight, any pending call may be the next to settle, and
\* the bot message of a settling call is appended at the end of the list,
\* whatever the order of the submissions.
C14_OverlappingSends == []C14_NotSerialized /\ [][C14_ArrivalOrder]_vars

\* The reply to the second submission stands before the reply to the first.
C14_Witness ==
    /\ msgCall = <<1, 2, 2, 1>>
    /\ messages[1].sender = "user"
    /\ messages[2].sender = "user"
    /\ messages[3] = [sender |-> "bot", text |-> <<"X">>]
    /\ messages[4] = [sender |-> "bot", text |-> NoReplyText]
C15_NotStuck ==
    (\A h \in 1..Len(historyCalls) : historyCalls[h].pc # "pending") => ~loadingHistory

C15_Usable ==
    Requests < MaxRequests =>
        /\ ENABLED SetShowHistory(TRUE)
        /\ ENABLED Type(<<" ", "h", "i", " ">>)
        /\ Trim(input) # <<>> => ENABLED SubmitAccepted

\* C15 as stated: loadingHistory is false whenever no /history fetch is in
\* flight, however the fetches ended, and in every reachable state the
\* interface still takes typed text, a non-empty submission and an open of the
\* panel.
C15_NeverStuckAlwaysUsable == C15_NotStuck /\ C15_Usable
\* The fetch of the most recent open transition completed successfully in the
\* last step, and an older fetch completes successfully in this step.
C16_OlderCompletesLast ==
    /\ event.kind = "history"
    /\ event.call = Len(historyCalls)
    /\ ~Throws(event.resp)
    /\ event.resp.field.t = "list"
    /\ HistoryStep
    /\ event'.call < Len(historyCalls)
    /\ ~Throws(event'.resp)
    /\ event'.resp.field.t = "list"

\* C16 as stated, for two fetches that complete one right after the other:
\* when the fetch of a reopened panel and the older fetch both complete
\* successfully with a list, the older one last, history is still the response
\* to the most recent fetch.
C16_LatestFetchWins ==
    [][C16_OlderCompletesLast => history' = event.resp.field]_vars
C17_AppendOnly ==
    \/ messages' = messages
    \/ /\ Len(messages') = Len(messages) + 1
       /\ SubSeq(messages', 1, Len(messages)) = messages

C17_RepliesFollow ==
    \A n \in 0..Len(messages) :
        Cardinality({i \in 1..n : messages[i].sender = "user"})
            >= Cardinality({i \in 1..n : messages[i].sender = "bot"})

\* C17: every step leaves the session list unchanged or adds exactly one
\* message at its end, and every prefix of the list holds at least as many
\* user messages as bot messages.
C17_AppendOnlyRepliesFollow == [][C17_AppendOnly]_vars /\ []C17_RepliesFollow

\* A reply was appended while a second call was pending, and a third
\* submission followed.
C17_Witness ==
    /\ msgCall = <<1, 2, 1, 3>>
    /\ messages[3].sender = "bot"
    /\ messages[4].sender = "user"
====
